---- MODULE Spec2Model ----
(***************************************************************************)
(* Shift scheduler: the CP-SAT schedule optimizer (services/optimizer.py), *)
(* the natural-language patch engine (routers/nlp_modify.py) and the       *)
(* manual assignment editor (routers/schedules.py), over the tables of     *)
(* database.py.                                                            *)
(*                                                                         *)
(* Units.  Every head count (headcount_value, required_count) is stored as *)
(* an integer number of quarters: 0.5 is 2, 1.0 is 4, 0.75 is 3.  The      *)
(* optimizer's own "scaled by 2" integers (hc_factor, scaled_req, the      *)
(* shortage variables) keep the code's unit of one half.                   *)
(*                                                                         *)
(* Dates.  The target month is 2026-10, cut after its first DaysInMonth    *)
(* days; a date is its day of the month.  1 October 2026 is a Thursday.    *)
(***************************************************************************)
EXTENDS Integers, FiniteSets, Sequences, TLC

\* ---------------------------------------------------------------- bounds
DaysInMonth == 3

MaxRequests == 2

MaxClock == 3

MaxLogRequests == 4

\* ------------------------------------------------------- program constants
NoneId == 0

HC_OFF == 0

HC_HALF == 2

HC_FULL == 4

W_WORKDAYS == 10

W_FAIRNESS == 5

W_BALANCE == 1

priority_weight == 2

W_SHORTAGE == 100

\* ------------------------------------------------------------- seed data
JobTypeIds == {1, 2, 3, 4}

JobTypeName ==
  [j \in JobTypeIds |->
     CASE j = 1 -> "shokunin"
       [] j = 2 -> "sub_shokunin"
       [] j = 3 -> "data"
       [] j = 4 -> "other"]

OffMarker == "yasumi"

EmployeeIds == {1, 2}

EmployeeName == [e \in EmployeeIds |-> IF e = 1 THEN "wakao" ELSE "ozaki"]

WorkTypes == {"full", "morning_half", "afternoon_half", "off"}

\* ---------------------------------------------------------------- calendar
all_dates == 1 .. DaysInMonth

\* date.weekday() of day d of 2026-10, Monday = 0
weekday(d) == (d + 2) % 7

JAPANESE_HOLIDAYS == {12}

is_holiday(d) == d \in JAPANESE_HOLIDAYS

is_non_working_day(d) == weekday(d) >= 5 \/ is_holiday(d)

working_dates == {d \in all_dates : ~is_non_working_day(d)}

\* ------------------------------------------------------------------ state
VARIABLES
  employees,            \* Employee rows: the ids present
  employee_job_types,   \* EmployeeJobType rows: employee id -> set of job type ids
  shift_requests,       \* ShiftRequest of the month with its RequestDetail rows, per employee
  daily_requirements,   \* DailyRequirement rows
  schedules,            \* Schedule rows
  shift_assignments,    \* ShiftAssignment rows
  nlp_logs,             \* NlpModificationLog rows
  request_count,        \* number of requests served so far
  response,             \* what the last request returned
  in_flight             \* the nlp_modify request between two of its commits, if any

vars == <<employees, employee_job_types, shift_requests, daily_requirements,
          schedules, shift_assignments, nlp_logs, request_count, response, in_flight>>

instance_vars == <<employees, employee_job_types, shift_requests, daily_requirements>>

\* ---------------------------------------------------------------- helpers
RECURSIVE SumOver(_, _)
SumOver(S, f) ==
  IF S = {} THEN 0
  ELSE LET s == CHOOSE t \in S : TRUE
       IN f[s] + SumOver(S \ {s}, f)

MaxOf(S) == CHOOSE m \in S : \A n \in S : n <= m

MinOf(S) == CHOOSE m \in S : \A n \in S : m <= n

Abs(n) == IF n >= 0 THEN n ELSE -n

\* Python max(a, b)
PyMax(a, b) == IF a >= b THEN a ELSE b

\* F(v) for the value v, which is computed once
With(v, F(_)) == CHOOSE r \in {F(w) : w \in {v}} : TRUE


\* ------------------------------------------- optimizer: loading the instance
emp_ids == employees

emp_names == EmployeeName

emp_job_types == employee_job_types

all_job_type_ids == UNION {emp_job_types[e] : e \in emp_ids}

\* variant: one request row per (employee, date) is read, the others are dropped
emp_off_periods_one_row(e, d) ==
  LET rows == {q \in shift_requests[e].details : q.date = d}
  IN IF rows = {} THEN {}
     ELSE LET r == CHOOSE q \in rows : TRUE
          IN IF r.period = "all_day" THEN {"am", "pm"} ELSE {r.period}

\* the union of the periods of e's request rows on date d
emp_off_periods(e, d) ==
  UNION {IF r.period = "all_day" THEN {"am", "pm"} ELSE {r.period} :
           r \in {q \in shift_requests[e].details : q.date = d}}

emp_requested_work(e) ==
  IF shift_requests[e].has THEN shift_requests[e].requested_work_days ELSE "None"

emp_full_off(e) ==
  {d \in all_dates : "am" \in emp_off_periods(e, d) /\ "pm" \in emp_off_periods(e, d)}

\* variant: a single requested half is always taken for the morning
emp_half_off_always_am(e, d) ==
  LET periods == emp_off_periods(e, d)
  IN IF "am" \in periods /\ "pm" \in periods THEN "None"
     ELSE IF "am" \in periods \/ "pm" \in periods THEN "am"
     ELSE "None"

\* "am" or "pm" when exactly that half is requested off, "None" otherwise
emp_half_off(e, d) ==
  LET periods == emp_off_periods(e, d)
  IN IF "am" \in periods /\ "pm" \in periods THEN "None"
     ELSE IF "am" \in periods THEN "am"
     ELSE IF "pm" \in periods THEN "pm"
     ELSE "None"

\* emp_hc_factor[e].get(d, 2)
emp_hc_factor(e, d) == IF emp_half_off(e, d) \in {"am", "pm"} THEN 1 ELSE 2

\* the rows of the month, as the dict date -> job type -> count
daily_reqs == {r \in daily_requirements : r.date \in all_dates}

hard_one_jt_ids == {j \in JobTypeIds : JobTypeName[j] \in {"shokunin", "sub_shokunin"}}

\* int(req_count * 2): truncation toward zero of a count given in quarters
scaled_req(req_count) ==
  IF req_count >= 0 THEN req_count \div 2 ELSE -((-req_count) \div 2)

\* int(rw) of a numeric work-days target
IntOfStr(str) ==
  CASE str = "1" -> 1
    [] str = "2" -> 2
    [] str = "3" -> 3
    [] str = "23" -> 23

\* -------------------------------------------------- optimizer: the CP-SAT model
\* A solver assignment gives every x[e, d, j].  HC-02 (at most one job per cell)
\* and the link work[e, d] = sum_j x[e, d, j] are carried by the representation:
\* sol[<<e, d>>] is the one job j with x[e, d, j] = 1, or NoneId.
Cells == emp_ids \X working_dates

x(sol, e, d, j) == IF sol[<<e, d>>] = j THEN 1 ELSE 0

work(sol, e, d) == IF sol[<<e, d>>] # NoneId THEN 1 ELSE 0

\* HC-01: work[e, d] == 0 is added for this cell
HC01(e, d) == d \in emp_full_off(e)

\* HC-04: x[e, d, j] == 0 is added for every date
HC04(e, j) == j \notin emp_job_types[e]

\* variant: half-day workers stay eligible for the one-per-day categories
HC06Half_dropped(e, d, j) == FALSE

\* HC-06, first part: x[e, d, j] == 0 is added for a half-day worker
HC06Half(e, d, j) ==
  /\ j \in hard_one_jt_ids
  /\ j \in all_job_type_ids
  /\ emp_half_off(e, d) # "None"
  /\ j \in emp_job_types[e]

\* the values the single-variable constraints leave to cell (e, d)
CellDomain(e, d) ==
  {NoneId} \cup
    {j \in all_job_type_ids : ~HC01(e, d) /\ ~HC04(e, j) /\ ~HC06Half(e, d, j)}

\* variant: a one-per-day category may stay without anybody
HC06_at_most_one(row) ==
  \A j \in hard_one_jt_ids :
    j \in all_job_type_ids =>
      Cardinality({e \in emp_ids : j \in emp_job_types[e] /\ row[e] = j}) <= 1

\* HC-06, second part, for the row e -> job of one date:
\* sum(x[e, d, j] for the qualified e) == 1
HC06(row) ==
  \A j \in hard_one_jt_ids :
    j \in all_job_type_ids =>
      Cardinality({e \in emp_ids : j \in emp_job_types[e] /\ row[e] = j}) = 1

\* the requirement rows that get a shortage variable
SoftReqs(reqs) ==
  {r \in reqs : r.date \in working_dates /\ r.job_type_id \notin hard_one_jt_ids}

supply(sol, d, j) ==
  SumOver({e \in emp_ids : j \in emp_job_types[e]},
          [e \in emp_ids |-> x(sol, e, d, j) * emp_hc_factor(e, d)])

\* new_int_var(0, scaled_req, ...) has an empty domain when scaled_req < 0
ModelValid(reqs) == \A r \in SoftReqs(reqs) : scaled_req(r.required_count) >= 0

\* variant: the requirement is hard, no shortage variable
SoftReqOK_hard(sol, r) ==
  supply(sol, r.date, r.job_type_id) >= scaled_req(r.required_count)

\* HC-03: some value of the shortage variable of row r satisfies
\* supply + shortage >= scaled_req
SoftReqOK(sol, r) ==
  \E sh \in 0 .. scaled_req(r.required_count) :
    supply(sol, r.date, r.job_type_id) + sh >= scaled_req(r.required_count)

\* the least value of the shortage variable of row r
shortage(sol, r) ==
  PyMax(0, scaled_req(r.required_count) - supply(sol, r.date, r.job_type_id))

total_working_dates == Cardinality(working_dates)

scaled_total == total_working_dates * 2

emp_total_work(sol, e) ==
  SumOver(working_dates, [d \in working_dates |-> work(sol, e, d) * emp_hc_factor(e, d)])

\* dev_work is a variable of domain 0 .. scaled_total bounded below by |tw - target|
SC01Feasible(sol) ==
  \A e \in emp_ids :
    LET rw == emp_requested_work(e)
    IN (rw \notin {"None", "max"}) =>
         Abs(emp_total_work(sol, e) - IntOfStr(rw) * 2) <= scaled_total

jt_count(sol, e, j) ==
  SumOver(working_dates, [d \in working_dates |-> x(sol, e, d, j)])

\* variant: a hint without amount is read as amount 0
apply_extra_constraint_null_as_zero(sol, c) ==
  LET target_emps == {e \in emp_ids : emp_names[e] = c.employee_name}
      target_jts == {j \in all_job_type_ids : JobTypeName[j] = c.job_type}
  IN IF target_emps = {} \/ target_jts = {} THEN TRUE
     ELSE LET target_emp == MinOf(target_emps)
              target_jt == MinOf(target_jts)
              cnt == jt_count(sol, target_emp, target_jt)
              truthy == c.amount # 0
          IN IF c.action = "increase" /\ truthy THEN cnt >= c.amount
             ELSE IF c.action = "decrease" /\ truthy THEN cnt <= PyMax(0, c.amount)
             ELSE IF c.action = "set" THEN cnt = c.amount
             ELSE TRUE

\* _apply_extra_constraint: the restriction one adjust hint adds
apply_extra_constraint(sol, c) ==
  LET target_emps == {e \in emp_ids : emp_names[e] = c.employee_name}
      target_jts == {j \in all_job_type_ids : JobTypeName[j] = c.job_type}
  IN IF target_emps = {} \/ target_jts = {} THEN TRUE
     ELSE LET target_emp == MinOf(target_emps)
              target_jt == MinOf(target_jts)
              cnt == jt_count(sol, target_emp, target_jt)
              truthy == c.has_amount /\ c.amount # 0
          IN IF c.action = "increase" /\ truthy THEN cnt >= c.amount
             ELSE IF c.action = "decrease" /\ truthy THEN cnt <= PyMax(0, c.amount)
             ELSE IF c.action = "set" /\ c.has_amount THEN cnt = c.amount
             ELSE TRUE

ExtraOK(sol, extra_constraints) ==
  \A i \in 1 .. Len(extra_constraints) : apply_extra_constraint(sol, extra_constraints[i])

\* The constraints that mention one date only (HC-01, HC-04, HC-06) are solved
\* date by date: DayRows(d) is the set of rows e -> job they leave to date d.
DayRows(d) ==
  With([e \in emp_ids |-> CellDomain(e, d)],
       LAMBDA dom :
         {row \in [emp_ids -> all_job_type_ids \cup {NoneId}] :
            (\A e \in emp_ids : row[e] \in dom[e]) /\ HC06(row)})

DayWise ==
  With([d \in working_dates |-> DayRows(d)],
       LAMBDA rows :
         {[c \in Cells |-> pick[c[2]][c[1]]] :
            pick \in {p \in [working_dates -> UNION {rows[d] : d \in working_dates}] :
                        \A d \in working_dates : p[d] \in rows[d]}})

FeasibleSolutions(reqs, extra_constraints) ==
  IF ~ModelValid(reqs) THEN {}
  ELSE {sol \in DayWise :
          /\ \A r \in SoftReqs(reqs) : SoftReqOK(sol, r)
          /\ SC01Feasible(sol)
          /\ ExtraOK(sol, extra_constraints)}

\* ---------------------------------------------------- optimizer: the objective
\* variant: the target "max" adds no term
SC01_without_max(sol) ==
  SumOver(emp_ids,
    [e \in emp_ids |->
       LET rw == emp_requested_work(e)
       IN IF rw \notin {"None", "max"}
            THEN Abs(emp_total_work(sol, e) - IntOfStr(rw) * 2) * W_WORKDAYS
          ELSE 0])

SC01(sol) ==
  SumOver(emp_ids,
    [e \in emp_ids |->
       LET rw == emp_requested_work(e)
       IN IF rw = "max" THEN (scaled_total - emp_total_work(sol, e)) * W_WORKDAYS
          ELSE IF rw # "None"
                 THEN Abs(emp_total_work(sol, e) - IntOfStr(rw) * 2) * W_WORKDAYS
          ELSE 0])

SC03(sol) ==
  IF Cardinality(emp_ids) > 1
    THEN LET tw == {emp_total_work(sol, e) : e \in emp_ids}
         IN (MaxOf(tw) - MinOf(tw)) * W_FAIRNESS
    ELSE 0

SC04(sol) ==
  SumOver(emp_ids,
    [e \in emp_ids |->
       IF Cardinality(emp_job_types[e]) <= 1 THEN 0
       ELSE LET job_counts == {jt_count(sol, e, j) : j \in emp_job_types[e]}
            IN (MaxOf(job_counts) - MinOf(job_counts)) * W_BALANCE])

SC05(sol) ==
  SumOver(Cells, [c \in Cells |-> sol[c] * priority_weight])

\* variant: a unit of shortage weighs 1
ShortagePenalty_unit_weight(sol, reqs) ==
  SumOver(SoftReqs(reqs), [r \in SoftReqs(reqs) |-> shortage(sol, r)])

ShortagePenalty(sol, reqs) ==
  SumOver(SoftReqs(reqs), [r \in SoftReqs(reqs) |-> shortage(sol, r) * W_SHORTAGE])

Objective(sol, reqs) ==
  SC01(sol) + SC03(sol) + SC04(sol) + SC05(sol) + ShortagePenalty(sol, reqs)

\* the assignments of least objective among feas
Optimal(feas, reqs) ==
  IF feas = {} THEN {}
  ELSE With([sol \in feas |-> Objective(sol, reqs)],
            LAMBDA cost :
              With(MinOf({cost[sol] : sol \in feas}),
                   LAMBDA least : {sol \in feas : cost[sol] = least}))

OptimalSolutions(reqs, extra_constraints) ==
  Optimal(FeasibleSolutions(reqs, extra_constraints), reqs)

\* ------------------------------------------------- optimizer: solve and save
\* What solver.solve(model) can return: the status and, when there is one, the
\* assignment.  The 30 s limit can end any search with UNKNOWN; FEASIBLE carries
\* any assignment that satisfies the constraints, OPTIMAL one of least objective.
SolverOutcomes(reqs, extra_constraints) ==
  IF ~ModelValid(reqs) THEN {[status |-> "MODEL_INVALID", sol |-> <<>>]}
  ELSE With(FeasibleSolutions(reqs, extra_constraints),
            LAMBDA feas :
              {[status |-> "UNKNOWN", sol |-> <<>>]}
                \cup (IF feas = {} THEN {[status |-> "INFEASIBLE", sol |-> <<>>]} ELSE {})
                \cup {[status |-> "FEASIBLE", sol |-> sol] : sol \in feas}
                \cup {[status |-> "OPTIMAL", sol |-> sol] : sol \in Optimal(feas, reqs)})

\* status in (cp_model.OPTIMAL, cp_model.FEASIBLE)
StatusAccepted(status) == status \in {"OPTIMAL", "FEASIBLE"}

\* variant: the projector walks the working dates only
ProjectedDates_working == working_dates

\* the dates the projector walks for every employee
ProjectedDates == all_dates

\* the cell the projector emits for (e, d)
ProjectCell(sol, e, d) ==
  IF is_non_working_day(d)
    THEN [job_type_id |-> NoneId, work_type |-> "off", headcount_value |-> HC_OFF]
  ELSE LET assigned_job == sol[<<e, d>>]
           half_off_period == emp_half_off(e, d)
       IN IF assigned_job # NoneId
            THEN IF half_off_period = "am"
                   THEN [job_type_id |-> assigned_job, work_type |-> "afternoon_half",
                         headcount_value |-> HC_HALF]
                 ELSE IF half_off_period = "pm"
                   THEN [job_type_id |-> assigned_job, work_type |-> "morning_half",
                         headcount_value |-> HC_HALF]
                 ELSE [job_type_id |-> assigned_job, work_type |-> "full",
                       headcount_value |-> HC_FULL]
          ELSE [job_type_id |-> NoneId, work_type |-> "off", headcount_value |-> HC_OFF]

\* autoincrement primary key of a table whose rows have the ids S
NextId(S) == IF S = {} THEN 1 ELSE MaxOf(S) + 1

\* position of employee e in db.query(Employee).order_by(Employee.sort_order)
EmpRank(e) == Cardinality({f \in emp_ids : f < e})

\* the ShiftAssignment row of schedule sid for cell (e, d) with the given values
AssignmentRow(id, sid, e, d, cell) ==
  [id |-> id, schedule_id |-> sid, employee_id |-> e, date |-> d,
   job_type_id |-> cell.job_type_id, work_type |-> cell.work_type,
   headcount_value |-> cell.headcount_value]

\* the ShiftAssignment rows generate_schedule adds for schedule sid
ProjectRows(sol, sid, first_id) ==
  {With(ProjectCell(sol, c[1], c[2]),
        LAMBDA cell :
          AssignmentRow(first_id + EmpRank(c[1]) * DaysInMonth + (c[2] - 1),
                        sid, c[1], c[2], cell)) :
     c \in emp_ids \X ProjectedDates}

\* the dates the violation reporter walks
ReportedDates == working_dates

\* variant: every assigned employee counts as a full head
actual_heads(sol, d, j) ==
  HC_FULL * Cardinality({e \in emp_ids : x(sol, e, d, j) = 1})

\* actual = sum(emp_hc_factor[e].get(d, 2) / 2 ...), in quarters
actual(sol, d, j) ==
  SumOver({e \in emp_ids : x(sol, e, d, j) = 1},
          [e \in emp_ids |-> emp_hc_factor(e, d) * 2])

Violations(sol, reqs) ==
  {[date |-> r.date, job_type |-> r.job_type_id, needed |-> r.required_count,
    got |-> actual(sol, r.date, r.job_type_id)] :
     r \in {q \in reqs : q.date \in ReportedDates
                          /\ actual(sol, q.date, q.job_type_id) < q.required_count}}

\* variant: the Schedule row is added before the status is looked at
SchedulesAtRaise_added ==
  schedules \cup {[id |-> NextId({s.id : s \in schedules}), status |-> "preview",
                   confirmed_at |-> 0]}

\* the Schedule rows when ValueError is raised: nothing was added to the session
SchedulesAtRaise == schedules

\* variant: saving a schedule turns the earlier schedules back into drafts
generate_schedule_demotes(extra_constraints, out) ==
  IF StatusAccepted(out.status)
    THEN LET sid == NextId({s.id : s \in schedules})
             first_id == NextId({a.id : a \in shift_assignments})
         IN [ok |-> TRUE,
             solver_status |-> out.status,
             schedules |-> {[s EXCEPT !.status = "draft"] : s \in schedules} \cup
                             {[id |-> sid, status |-> "preview", confirmed_at |-> 0]},
             shift_assignments |->
                shift_assignments \cup ProjectRows(out.sol, sid, first_id),
             schedule_id |-> sid,
             violations |-> Violations(out.sol, daily_reqs)]
    ELSE [ok |-> FALSE,
          solver_status |-> out.status,
          schedules |-> SchedulesAtRaise,
          shift_assignments |-> shift_assignments,
          schedule_id |-> NoneId,
          violations |-> {}]

\* generate_schedule(db, month, extra_constraints), for the solver outcome out:
\* the tables after the call and what it returns (ok = FALSE: ValueError raised)
generate_schedule(extra_constraints, out) ==
  IF StatusAccepted(out.status)
    THEN LET sid == NextId({s.id : s \in schedules})
             first_id == NextId({a.id : a \in shift_assignments})
         IN [ok |-> TRUE,
             solver_status |-> out.status,
             schedules |-> schedules \cup
                             {[id |-> sid, status |-> "preview", confirmed_at |-> 0]},
             shift_assignments |->
                shift_assignments \cup ProjectRows(out.sol, sid, first_id),
             schedule_id |-> sid,
             violations |-> Violations(out.sol, daily_reqs)]
    ELSE [ok |-> FALSE,
          solver_status |-> out.status,
          schedules |-> SchedulesAtRaise,
          shift_assignments |-> shift_assignments,
          schedule_id |-> NoneId,
          violations |-> {}]

\* what generate_schedule can meet: the two early ValueErrors leave the solver
\* unused, otherwise any outcome of the solver
GenerateOutcomes(extra_constraints) ==
  IF emp_ids = {} \/ all_job_type_ids = {}
    THEN {[status |-> "NOT_RUN", sol |-> <<>>]}
    ELSE SolverOutcomes(daily_reqs, extra_constraints)

NoResponse ==
  [op |-> "none", code |-> 200, solver_status |-> "NOT_RUN", schedule_id |-> NoneId,
   violations |-> {}, path |-> "none", log_id |-> NoneId, parsed |-> <<>>,
   changes |-> <<>>]

\* no nlp_modify request is between two commits
Idle ==
  [phase |-> "idle", schedule_id |-> NoneId, parsed |-> <<>>, log_id |-> NoneId,
   new_schedule_id |-> NoneId, solver_status |-> "NOT_RUN", violations |-> {}]

\* POST /api/schedules/generate
GenerateCall ==
  /\ request_count' = request_count + 1
  /\ UNCHANGED in_flight
  /\ \E out \in GenerateOutcomes(<<>>) :
     \E res \in {generate_schedule(<<>>, out)} :
          /\ schedules' = res.schedules
          /\ shift_assignments' = res.shift_assignments
          /\ response' = [NoResponse EXCEPT !.op = "generate",
                            !.code = IF res.ok THEN 200 ELSE 400,
                            !.solver_status = res.solver_status,
                            !.schedule_id = res.schedule_id,
                            !.violations = res.violations]
  /\ UNCHANGED <<instance_vars, nlp_logs>>

\* the same request while the request budget lasts
Generate == request_count < MaxRequests /\ GenerateCall

\* ------------------------------------------------------- the NL patch engine
RowsOf(sid) == {a \in shift_assignments : a.schedule_id = sid}

\* variant: a name that no JobType row has resolves to the first job type
jt_name_to_id_default(name) ==
  IF \E j \in JobTypeIds : JobTypeName[j] = name
    THEN CHOOSE j \in JobTypeIds : JobTypeName[j] = name
    ELSE 1

\* jt_name_to_id.get(name) over all JobType rows; NoneId when the name is unknown
jt_name_to_id(name) ==
  IF \E j \in JobTypeIds : JobTypeName[j] = name
    THEN CHOOSE j \in JobTypeIds : JobTypeName[j] = name
    ELSE NoneId

\* emp_name_to_id.get(name) over all Employee rows; NoneId when nobody has the name
emp_name_to_id(name) ==
  IF \E e \in employees : EmployeeName[e] = name
    THEN CHOOSE e \in employees : EmployeeName[e] = name
    ELSE NoneId

\* variant: the off marker leaves the job type of the cell in place
ApplyPin_keeps_job(rows, pin) ==
  LET emp_id == emp_name_to_id(pin.employee_name)
      targets == {a \in rows : a.employee_id = emp_id /\ a.date = pin.date}
  IN IF emp_id = NoneId \/ pin.date = NoneId \/ targets = {} THEN rows
     ELSE LET target == CHOOSE a \in targets : \A b \in targets : b.id <= a.id
          IN IF pin.new_job_type = OffMarker
               THEN (rows \ {target}) \cup
                      {[target EXCEPT !.work_type = "off", !.headcount_value = HC_OFF]}
             ELSE LET jt_id == jt_name_to_id(pin.new_job_type)
                  IN IF jt_id # NoneId
                       THEN (rows \ {target}) \cup
                              {[target EXCEPT !.job_type_id = jt_id, !.work_type = "full",
                                              !.headcount_value = HC_FULL]}
                     ELSE rows

\* the body of the loop of _apply_pins_to_assignments for one pin
ApplyPin(rows, pin) ==
  LET emp_id == emp_name_to_id(pin.employee_name)
      targets == {a \in rows : a.employee_id = emp_id /\ a.date = pin.date}
  IN IF emp_id = NoneId \/ pin.date = NoneId \/ targets = {} THEN rows
     ELSE LET target == CHOOSE a \in targets : \A b \in targets : b.id <= a.id
          IN IF pin.new_job_type = OffMarker
               THEN (rows \ {target}) \cup
                      {[target EXCEPT !.job_type_id = NoneId, !.work_type = "off",
                                      !.headcount_value = HC_OFF]}
             ELSE LET jt_id == jt_name_to_id(pin.new_job_type)
                  IN IF jt_id # NoneId
                       THEN (rows \ {target}) \cup
                              {[target EXCEPT !.job_type_id = jt_id, !.work_type = "full",
                                              !.headcount_value = HC_FULL]}
                     ELSE rows

\* _apply_pins_to_assignments: the pins are applied in list order
RECURSIVE apply_pins_to_assignments(_, _)
apply_pins_to_assignments(rows, pin_changes) ==
  IF pin_changes = <<>> THEN rows
  ELSE apply_pins_to_assignments(ApplyPin(rows, Head(pin_changes)), Tail(pin_changes))

SelectSeq2(seq, type) == SelectSeq(seq, LAMBDA p : p.type = type)

\* variant: the copy leaves work_type and headcount_value to the column defaults
CloneRows_defaults(old_assignments, new_sid, first_id) ==
  {[a EXCEPT !.id = first_id + Cardinality({b \in old_assignments : b.id < a.id}),
             !.schedule_id = new_sid, !.work_type = "full",
             !.headcount_value = HC_FULL] : a \in old_assignments}

\* the rows _apply_pin_changes copies from the old schedule, before the pins
CloneRows(old_assignments, new_sid, first_id) ==
  {[a EXCEPT !.id = first_id + Cardinality({b \in old_assignments : b.id < a.id}),
             !.schedule_id = new_sid] : a \in old_assignments}

\* the rows of a query result, in the order of their ids
SortById(rows) ==
  [i \in 1 .. Cardinality(rows) |->
     CHOOSE a \in rows : Cardinality({b \in rows : b.id < a.id}) = i - 1]

\* jt_map.get(j, "休み") if j else "休み"
JobName(j) == IF j \in JobTypeIds THEN JobTypeName[j] ELSE OffMarker

\* old_map.get((e, d)): the job type of the old row of the cell, None without row
OldJob(old_rows, e, d) ==
  LET olds == {o \in old_rows : o.employee_id = e /\ o.date = d}
  IN IF olds = {} THEN NoneId
     ELSE (CHOOSE o \in olds : \A q \in olds : q.id <= o.id).job_type_id

\* variant: rows of the new schedule without job type are not compared
compute_changes_skips_off(old_rows, new_rows) ==
  LET diff == SelectSeq(SortById(new_rows),
                        LAMBDA a : a.job_type_id # NoneId
                                     /\ OldJob(old_rows, a.employee_id, a.date) # a.job_type_id)
  IN [i \in 1 .. Len(diff) |->
        [employee_id |-> diff[i].employee_id, date |-> diff[i].date,
         old_job_type |-> JobName(OldJob(old_rows, diff[i].employee_id, diff[i].date)),
         new_job_type |-> JobName(diff[i].job_type_id)]]

\* the "Compute diff" loops of nlp_modify and _apply_pin_changes
compute_changes(old_rows, new_rows) ==
  LET diff == SelectSeq(SortById(new_rows),
                        LAMBDA a : OldJob(old_rows, a.employee_id, a.date) # a.job_type_id)
  IN [i \in 1 .. Len(diff) |->
        [employee_id |-> diff[i].employee_id, date |-> diff[i].date,
         old_job_type |-> JobName(OldJob(old_rows, diff[i].employee_id, diff[i].date)),
         new_job_type |-> JobName(diff[i].job_type_id)]]

\* POST /api/schedules/{schedule_id}/nlp-modify, the oracle answering parsed
NlpModifyCall(schedule_id, parsed) ==
  /\ request_count' = request_count + 1
  /\ UNCHANGED in_flight
  /\ \E s \in schedules : s.id = schedule_id
  /\ LET assignments == RowsOf(schedule_id)
         log_id == NextId({l.id : l \in nlp_logs})
         pending == [id |-> log_id, schedule_id |-> schedule_id, status |-> "pending",
                     new_schedule_id |-> NoneId]
         pin_changes == SelectSeq2(parsed, "pin")
         adjust_changes == SelectSeq2(parsed, "adjust")
         new_sid == NextId({s.id : s \in schedules})
         first_id == NextId({a.id : a \in shift_assignments})
     IN IF pin_changes # <<>> /\ adjust_changes = <<>>
          THEN \* _apply_pin_changes
               \E new_rows \in {apply_pins_to_assignments(
                                  CloneRows(assignments, new_sid, first_id), pin_changes)} :
               /\ schedules' = schedules \cup
                    {[id |-> new_sid, status |-> "draft", confirmed_at |-> 0]}
               /\ shift_assignments' = shift_assignments \cup new_rows
               /\ nlp_logs' = nlp_logs \cup {[pending EXCEPT !.new_schedule_id = new_sid]}
               /\ response' = [NoResponse EXCEPT !.op = "nlp_modify", !.path = "pin",
                                 !.schedule_id = new_sid, !.log_id = log_id,
                                 !.parsed = parsed,
                                 !.changes = compute_changes(assignments, new_rows)]
          ELSE \E extra \in {IF adjust_changes # <<>> THEN adjust_changes ELSE parsed} :
               \E out \in GenerateOutcomes(extra) :
               \E res \in {generate_schedule(extra, out)} :
                 IF res.ok
                   THEN \E new_rows \in {apply_pins_to_assignments(
                                           {a \in res.shift_assignments :
                                              a.schedule_id = res.schedule_id},
                                           pin_changes)} :
                        /\ schedules' = res.schedules
                        /\ shift_assignments' = shift_assignments \cup new_rows
                        /\ nlp_logs' = nlp_logs \cup
                             {[pending EXCEPT !.new_schedule_id = res.schedule_id]}
                        /\ response' = [NoResponse EXCEPT !.op = "nlp_modify",
                                          !.path = IF pin_changes = <<>> THEN "reopt"
                                                   ELSE "reopt_pin",
                                          !.solver_status = res.solver_status,
                                          !.schedule_id = res.schedule_id,
                                          !.violations = res.violations,
                                          !.log_id = log_id,
                                          !.parsed = parsed,
                                          !.changes = compute_changes(assignments, new_rows)]
                   ELSE /\ schedules' = res.schedules
                        /\ shift_assignments' = res.shift_assignments
                        /\ nlp_logs' = nlp_logs \cup {pending}
                        /\ response' = [NoResponse EXCEPT !.op = "nlp_modify",
                                          !.path = "reopt", !.code = 400,
                                          !.solver_status = res.solver_status]
  /\ UNCHANGED instance_vars

\* the same request while the request budget lasts
NlpModify(schedule_id, parsed) ==
  request_count < MaxRequests /\ NlpModifyCall(schedule_id, parsed)

\* ------------------------------------- nlp_modify, one commit after the other
\* nlp_modify up to its first db.commit(): the log row is saved as pending
NlpLogCommit(schedule_id, parsed) ==
  /\ in_flight.phase = "idle"
  /\ request_count < MaxRequests
  /\ request_count' = request_count + 1
  /\ \E s \in schedules : s.id = schedule_id
  /\ LET log_id == NextId({l.id : l \in nlp_logs})
     IN /\ nlp_logs' = nlp_logs \cup
             {[id |-> log_id, schedule_id |-> schedule_id, status |-> "pending",
               new_schedule_id |-> NoneId]}
        /\ in_flight' = [Idle EXCEPT !.phase = "logged", !.schedule_id = schedule_id,
                           !.parsed = parsed, !.log_id = log_id]
  /\ UNCHANGED <<instance_vars, schedules, shift_assignments, response>>

\* nlp_modify from the split of the edits to the commit that saves the new schedule:
\* db.commit() at the end of _apply_pin_changes, or the one of generate_schedule
NlpScheduleCommit ==
  /\ in_flight.phase = "logged"
  /\ LET assignments == RowsOf(in_flight.schedule_id)
         pin_changes == SelectSeq2(in_flight.parsed, "pin")
         adjust_changes == SelectSeq2(in_flight.parsed, "adjust")
         new_sid == NextId({s.id : s \in schedules})
         first_id == NextId({a.id : a \in shift_assignments})
     IN IF pin_changes # <<>> /\ adjust_changes = <<>>
          THEN /\ schedules' = schedules \cup
                    {[id |-> new_sid, status |-> "draft", confirmed_at |-> 0]}
               /\ shift_assignments' = shift_assignments \cup
                    apply_pins_to_assignments(CloneRows(assignments, new_sid, first_id),
                                              pin_changes)
               /\ in_flight' = [in_flight EXCEPT !.phase = "written",
                                                 !.new_schedule_id = new_sid]
               /\ response' = response
          ELSE \E extra \in {IF adjust_changes # <<>> THEN adjust_changes
                             ELSE in_flight.parsed} :
               \E out \in GenerateOutcomes(extra) :
               \E res \in {generate_schedule(extra, out)} :
                 /\ schedules' = res.schedules
                 /\ shift_assignments' = res.shift_assignments
                 /\ IF res.ok
                      THEN /\ in_flight' = [in_flight EXCEPT !.phase = "written",
                                              !.new_schedule_id = res.schedule_id,
                                              !.solver_status = res.solver_status,
                                              !.violations = res.violations]
                           /\ response' = response
                    ELSE /\ in_flight' = Idle
                         /\ response' = [NoResponse EXCEPT !.op = "nlp_modify",
                                           !.path = "reopt", !.code = 400,
                                           !.solver_status = res.solver_status]
  /\ UNCHANGED <<instance_vars, nlp_logs, request_count>>

\* nlp_modify from the pins after a re-optimization to its last db.commit(): the
\* pins and the reference of the log to the new schedule are saved together
NlpLogUpdateCommit ==
  /\ in_flight.phase = "written"
  /\ LET pin_changes == SelectSeq2(in_flight.parsed, "pin")
         adjust_changes == SelectSeq2(in_flight.parsed, "adjust")
         pin_only == pin_changes # <<>> /\ adjust_changes = <<>>
         saved == RowsOf(in_flight.new_schedule_id)
     IN \E new_rows \in {IF pin_only THEN saved
                         ELSE apply_pins_to_assignments(saved, pin_changes)} :
          /\ shift_assignments' = (shift_assignments \ saved) \cup new_rows
          /\ nlp_logs' = {IF l.id = in_flight.log_id
                            THEN [l EXCEPT !.new_schedule_id = in_flight.new_schedule_id]
                          ELSE l : l \in nlp_logs}
          /\ response' = [NoResponse EXCEPT !.op = "nlp_modify",
                            !.path = IF pin_only THEN "pin"
                                     ELSE IF pin_changes = <<>> THEN "reopt"
                                     ELSE "reopt_pin",
                            !.solver_status = in_flight.solver_status,
                            !.schedule_id = in_flight.new_schedule_id,
                            !.violations = in_flight.violations,
                            !.log_id = in_flight.log_id,
                            !.parsed = in_flight.parsed,
                            !.changes = compute_changes(RowsOf(in_flight.schedule_id),
                                                        new_rows)]
  /\ in_flight' = Idle
  /\ UNCHANGED <<instance_vars, schedules, request_count>>

\* --------------------------------------------------------- manual assignment edit
\* the head count update_assignments stores for a work type
HeadcountFor(work_type) ==
  IF work_type = "off" THEN HC_OFF
  ELSE IF work_type \in {"morning_half", "afternoon_half"} THEN HC_HALF
  ELSE HC_FULL

\* PUT /api/schedules/{schedule_id}/assignments with a body of one item
UpdateAssignments(schedule_id, item) ==
  /\ request_count < MaxRequests
  /\ \E s \in schedules : s.id = schedule_id
  /\ request_count' = request_count + 1
  /\ UNCHANGED in_flight
  /\ shift_assignments' =
       {IF a.schedule_id = schedule_id /\ a.employee_id = item.employee_id
             /\ a.date = item.date
          THEN [a EXCEPT !.job_type_id = item.job_type_id, !.work_type = item.work_type,
                         !.headcount_value = HeadcountFor(item.work_type)]
          ELSE a : a \in shift_assignments}
  /\ response' = [NoResponse EXCEPT !.op = "update_assignments",
                    !.schedule_id = schedule_id]
  /\ UNCHANGED <<instance_vars, schedules, nlp_logs>>

\* ----------------------------------------------------------- schedule status
StatusNames == {"draft", "preview", "confirmed", "published"}

\* datetime.utcnow() while the next request is served
utcnow == request_count + 1

\* PUT /api/schedules/{schedule_id}/status
UpdateStatus(schedule_id, status) ==
  /\ request_count < MaxClock
  /\ request_count' = request_count + 1
  /\ UNCHANGED in_flight
  /\ IF ~ \E s \in schedules : s.id = schedule_id
       THEN /\ response' = [NoResponse EXCEPT !.op = "update_status", !.code = 404]
            /\ UNCHANGED schedules
     ELSE IF status \notin StatusNames
       THEN /\ response' = [NoResponse EXCEPT !.op = "update_status", !.code = 400,
                              !.schedule_id = schedule_id]
            /\ UNCHANGED schedules
     ELSE /\ schedules' =
               {IF s.id = schedule_id
                  THEN [s EXCEPT !.status = status,
                                 !.confirmed_at = IF status = "confirmed" THEN utcnow ELSE @]
                  ELSE s : s \in schedules}
          /\ response' = [NoResponse EXCEPT !.op = "update_status",
                            !.schedule_id = schedule_id]
  /\ UNCHANGED <<instance_vars, shift_assignments, nlp_logs>>

\* ---------------------------------------------------------- problem instances
Periods == {"am", "pm", "all_day"}

DetailRows == {[date |-> d, period |-> p] : d \in all_dates, p \in Periods}

NoRequest == [has |-> FALSE, requested_work_days |-> "None", details |-> {}]

QualChoices == {{1}, {3, 4}, {1, 2, 3, 4}}

\* one request row, or the two half-day rows of the first day
DetailChoices ==
  {{r} : r \in DetailRows}
    \cup {{[date |-> 1, period |-> "am"], [date |-> 1, period |-> "pm"]}}

RequestChoices ==
  {NoRequest}
    \cup {[has |-> TRUE, requested_work_days |-> "None", details |-> ds] :
            ds \in DetailChoices}
    \cup {[has |-> TRUE, requested_work_days |-> "3", details |-> ds] :
            ds \in {{}} \cup DetailChoices}

LightRequestChoices ==
  {NoRequest,
   [has |-> TRUE, requested_work_days |-> "None",
    details |-> {[date |-> 1, period |-> "am"]}],
   [has |-> TRUE, requested_work_days |-> "None",
    details |-> {[date |-> 1, period |-> "all_day"]}],
   [has |-> TRUE, requested_work_days |-> "None",
    details |-> {[date |-> 1, period |-> "am"], [date |-> 1, period |-> "pm"]}]}

ReqCounts == {-2, 2, 3, 4, 8}

ReqRows ==
  {[date |-> d, job_type_id |-> j, required_count |-> c] :
     d \in all_dates, j \in JobTypeIds, c \in ReqCounts}

InitStore ==
  /\ schedules = {}
  /\ shift_assignments = {}
  /\ nlp_logs = {}
  /\ request_count = 0
  /\ response = NoResponse
  /\ in_flight = Idle

\* the instances of the optimizer: any requests without requirement rows, or one
\* requirement row with a few requests
InitOpt ==
  /\ employees = EmployeeIds
  /\ employee_job_types \in [EmployeeIds -> QualChoices]
  /\ \/ /\ shift_requests \in [EmployeeIds -> RequestChoices]
        /\ daily_requirements = {}
     \/ /\ shift_requests \in [EmployeeIds -> LightRequestChoices]
        /\ daily_requirements \in {{r} : r \in ReqRows}
  /\ InitStore

GenerateOnce == request_count = 0 /\ Generate

NextOpt == GenerateOnce

SpecOpt == InitOpt /\ [][NextOpt]_vars

\* ------------------------------------------------ the requests of the full model
Pin(n, d, t) == [type |-> "pin", employee_name |-> n, date |-> d, new_job_type |-> t]

Adjust(n, t, action, has_amount, amount) ==
  [type |-> "adjust", employee_name |-> n, job_type |-> t, action |-> action,
   has_amount |-> has_amount, amount |-> amount]

\* pins on a working date and on the first Saturday, and two that resolve nothing
PinChoices ==
  {Pin("wakao", d, t) : d \in {1, 3}, t \in {"data", OffMarker}}
    \cup {Pin("nobody", 1, "data"), Pin("wakao", 1, "unknown")}

AdjustChoices ==
  {Adjust("ozaki", "data", "set", TRUE, 1), Adjust("ozaki", "data", "increase", TRUE, 5)}

ParsedChoices ==
  {<<>>} \cup {<<p>> : p \in PinChoices} \cup {<<c>> : c \in AdjustChoices}
    \cup {<<c, p>> : c \in AdjustChoices, p \in {Pin("wakao", 1, "data")}}

UpdateItems ==
  {[employee_id |-> 1, date |-> 1, job_type_id |-> v[1], work_type |-> v[2]] :
     v \in {<<3, "morning_half">>, <<NoneId, "off">>, <<NoneId, "full">>, <<1, "night">>}}

\* a few instances, each with few assignments to choose from
Init ==
  /\ employees = EmployeeIds
  /\ employee_job_types \in
       {[e \in EmployeeIds |-> IF e = 1 THEN {1} ELSE {2, 3}],
        [e \in EmployeeIds |-> {1}]}
  /\ shift_requests \in
       {[e \in EmployeeIds |-> NoRequest],
        [e \in EmployeeIds |->
           IF e = 2 THEN [has |-> TRUE, requested_work_days |-> "None",
                          details |-> {[date |-> 1, period |-> "am"]}]
           ELSE NoRequest]}
  /\ daily_requirements \in
       {{}, {[date |-> 1, job_type_id |-> 3, required_count |-> 4]},
        {[date |-> 1, job_type_id |-> 3, required_count |-> -2]}}
  /\ InitStore

Next ==
  \/ Generate
  \/ \E sid \in {s.id : s \in schedules} : \E parsed \in ParsedChoices :
       NlpModify(sid, parsed)
  \/ \E sid \in {s.id : s \in schedules} : \E item \in UpdateItems :
       UpdateAssignments(sid, item)

Spec == Init /\ [][Next]_vars

\* ------------------------------------------- one patch of a generated schedule
PatchPins ==
  {Pin("ozaki", d, t) : d \in all_dates, t \in {"shokunin", "data", OffMarker, "unknown"}}
    \cup {Pin("nobody", 1, "data"), Pin("ozaki", DaysInMonth + 1, "data")}

\* a pin of a cell followed by a second pin of the same cell
PatchPinPairs ==
  {<<Pin("ozaki", 1, t), Pin("ozaki", 1, u)>> :
     t \in {"shokunin", "data", OffMarker, "unknown"}, u \in {"data", OffMarker}}

AdjustAmounts == {-1, 0, 1, 2}

\* hints that resolve, and hints with an unknown name or without amount
PatchAdjusts ==
  {Adjust("ozaki", "data", action, TRUE, amount) :
     action \in {"set", "increase", "decrease"}, amount \in AdjustAmounts}
    \cup {Adjust("nobody", "data", "set", TRUE, 0), Adjust("ozaki", "unknown", "set", TRUE, 0)}
    \cup {Adjust("ozaki", "data", action, FALSE, 0) : action \in {"set", "increase", "decrease"}}

PatchChoices ==
  {<<>>} \cup {<<p>> : p \in PatchPins} \cup PatchPinPairs \cup {<<c>> : c \in PatchAdjusts}
    \cup {<<c, Pin("ozaki", 1, t)>> :
            c \in {Adjust("ozaki", "data", "set", TRUE, 1),
                   Adjust("nobody", "data", "set", TRUE, 0)},
            t \in {"shokunin", OffMarker}}

InitPatch ==
  /\ employees = EmployeeIds
  /\ employee_job_types \in
       {[e \in EmployeeIds |-> IF e = 1 THEN {1} ELSE {3}],
        [e \in EmployeeIds |-> IF e = 1 THEN {1} ELSE {3, 4}],
        [e \in EmployeeIds |-> {1}]}
  /\ shift_requests \in
       {[e \in EmployeeIds |-> IF e = 2 THEN r ELSE NoRequest] :
          r \in {NoRequest} \cup
                {[has |-> TRUE, requested_work_days |-> "None",
                  details |-> {[date |-> 1, period |-> p]}] : p \in {"am", "pm"}}}
  /\ daily_requirements \in {{}, {[date |-> 1, job_type_id |-> 3, required_count |-> 4]}}
  /\ InitStore

PatchOnce ==
  /\ nlp_logs = {}
  /\ \E sid \in {s.id : s \in schedules} : \E parsed \in PatchChoices :
       NlpModify(sid, parsed)

NextPatch == GenerateOnce \/ PatchOnce

SpecPatch == InitPatch /\ [][NextPatch]_vars

\* --------------------------------------------------- the life of a schedule
StatusChoices == StatusNames \cup {"archived"}

LifePatches == {<<>>, <<Pin("wakao", 1, OffMarker)>>}

InitLife ==
  /\ employees = EmployeeIds
  /\ employee_job_types \in
       {[e \in EmployeeIds |-> IF e = 1 THEN {1} ELSE {2, 3}],
        [e \in EmployeeIds |-> {1}]}
  /\ shift_requests = [e \in EmployeeIds |-> NoRequest]
  /\ daily_requirements = {}
  /\ InitStore

NextLife ==
  \/ request_count < MaxClock /\ GenerateCall
  \/ \E sid \in {s.id : s \in schedules} : \E parsed \in LifePatches :
       request_count < MaxClock /\ NlpModifyCall(sid, parsed)
  \/ \E sid \in {s.id : s \in schedules} \cup {NextId({s.id : s \in schedules})} :
       \E status \in StatusChoices : UpdateStatus(sid, status)

SpecLife == InitLife /\ [][NextLife]_vars

\* ------------------------------------------------- decisions on patch logs
\* PUT /api/nlp-logs/{log_id}/approve
ApproveLog(log_id) ==
  /\ request_count < MaxLogRequests
  /\ request_count' = request_count + 1
  /\ UNCHANGED in_flight
  /\ IF ~\E l \in nlp_logs : l.id = log_id
       THEN /\ nlp_logs' = nlp_logs
            /\ response' = [NoResponse EXCEPT !.op = "approve_log", !.code = 404,
                              !.log_id = log_id]
     ELSE /\ nlp_logs' = {IF l.id = log_id THEN [l EXCEPT !.status = "approved"] ELSE l :
                            l \in nlp_logs}
          /\ response' = [NoResponse EXCEPT !.op = "approve_log", !.log_id = log_id]
  /\ UNCHANGED <<instance_vars, schedules, shift_assignments>>

\* variant: the Schedule row goes and its assignments stay
DeleteSchedule_no_cascade(sid) ==
  [schedules |-> {s \in schedules : s.id # sid},
   shift_assignments |-> shift_assignments,
   nlp_logs |-> {l \in nlp_logs : l.schedule_id # sid}]

\* db.delete(new_schedule) followed by the flush: the Schedule row goes, and with it
\* the rows that the relationships assignments and nlp_logs cascade to
DeleteSchedule(sid) ==
  [schedules |-> {s \in schedules : s.id # sid},
   shift_assignments |-> {a \in shift_assignments : a.schedule_id # sid},
   nlp_logs |-> {l \in nlp_logs : l.schedule_id # sid}]

\* PUT /api/nlp-logs/{log_id}/reject.  parsed_instruction is the JSON list the
\* oracle answered until the patch has succeeded, and a JSON object that holds
\* new_schedule_id afterwards; .get on the list raises AttributeError (500).
RejectLog(log_id) ==
  /\ request_count < MaxLogRequests
  /\ request_count' = request_count + 1
  /\ UNCHANGED in_flight
  /\ IF ~\E l \in nlp_logs : l.id = log_id
       THEN /\ UNCHANGED <<schedules, shift_assignments, nlp_logs>>
            /\ response' = [NoResponse EXCEPT !.op = "reject_log", !.code = 404,
                              !.log_id = log_id]
     ELSE LET log == CHOOSE l \in nlp_logs : l.id = log_id
          IN IF log.new_schedule_id = NoneId
               THEN /\ UNCHANGED <<schedules, shift_assignments, nlp_logs>>
                    /\ response' = [NoResponse EXCEPT !.op = "reject_log", !.code = 500,
                                      !.log_id = log_id]
             ELSE \E after \in {IF \E s \in schedules : s.id = log.new_schedule_id
                                  THEN DeleteSchedule(log.new_schedule_id)
                                  ELSE [schedules |-> schedules,
                                        shift_assignments |-> shift_assignments,
                                        nlp_logs |-> nlp_logs]} :
                    /\ schedules' = after.schedules
                    /\ shift_assignments' = after.shift_assignments
                    /\ nlp_logs' = {IF l.id = log_id THEN [l EXCEPT !.status = "rejected"]
                                    ELSE l : l \in after.nlp_logs}
                    /\ response' = [NoResponse EXCEPT !.op = "reject_log",
                                      !.log_id = log_id,
                                      !.schedule_id = log.new_schedule_id]
  /\ UNCHANGED instance_vars

LogPatches == {<<>>, <<Pin("wakao", 1, OffMarker)>>}

InitLog ==
  /\ employees = EmployeeIds
  /\ employee_job_types \in
       {[e \in EmployeeIds |-> IF e = 1 THEN {1} ELSE {}],
        [e \in EmployeeIds |-> IF e = 1 THEN {1} ELSE {2, 3}]}
  /\ shift_requests = [e \in EmployeeIds |-> NoRequest]
  /\ daily_requirements = {}
  /\ InitStore

NextLog ==
  \/ request_count < MaxLogRequests /\ GenerateCall
  \/ \E sid \in {s.id : s \in schedules} : \E parsed \in LogPatches :
       request_count < MaxLogRequests /\ NlpModifyCall(sid, parsed)
  \/ \E log_id \in {l.id : l \in nlp_logs} \cup {NextId({l.id : l \in nlp_logs})} :
       ApproveLog(log_id)
  \/ \E log_id \in {l.id : l \in nlp_logs} \cup {NextId({l.id : l \in nlp_logs})} :
       RejectLog(log_id)

SpecLog == InitLog /\ [][NextLog]_vars

\* ------------------------------------------- what a concurrent reader can see
TxPatches ==
  {<<>>, <<Pin("wakao", 1, OffMarker)>>,
   <<Adjust("ozaki", "data", "increase", TRUE, 1), Pin("wakao", 1, OffMarker)>>}

InitTx ==
  /\ employees = EmployeeIds
  /\ employee_job_types \in
       {[e \in EmployeeIds |-> IF e = 1 THEN {1} ELSE {3}],
        [e \in EmployeeIds |-> IF e = 1 THEN {1} ELSE {2, 3}]}
  /\ shift_requests = [e \in EmployeeIds |-> NoRequest]
  /\ daily_requirements = {}
  /\ InitStore

NextTx ==
  \/ Generate
  \/ \E sid \in {s.id : s \in schedules} : \E parsed \in TxPatches :
       NlpLogCommit(sid, parsed)
  \/ NlpScheduleCommit
  \/ NlpLogUpdateCommit

SpecTx == InitTx /\ [][NextTx]_vars

\* ------------------------------------------------ one employee on the roster
SoloTargets == {"max", "1"}

InitSolo ==
  /\ employees = {1}
  /\ employee_job_types \in
       {[e \in EmployeeIds |-> IF e = 1 THEN q ELSE {}] : q \in {{3}, {4}, {3, 4}, {1, 3}}}
  /\ shift_requests \in
       {[e \in EmployeeIds |->
           IF e = 1 THEN [has |-> TRUE, requested_work_days |-> t, details |-> {}]
           ELSE NoRequest] : t \in SoloTargets}
  /\ daily_requirements = {}
  /\ InitStore

NextSolo == Generate

SpecSolo == InitSolo /\ [][NextSolo]_vars

\* ------------------------------------------------------------------ properties
\* the last request was a generation that returned a schedule
Produced == response.op = "generate" /\ response.code = 200

\* the last request returned a schedule built by the optimizer or the NL patch engine
Output == response.op \in {"generate", "nlp_modify"} /\ response.code = 200

OutputRows == RowsOf(response.schedule_id)

CellRows(e, d) == {a \in OutputRows : a.employee_id = e /\ a.date = d}

\* the halves of date d that the request rows of e ask off
RequestedOff(e, d) ==
  {p \in {"am", "pm"} :
     \E r \in shift_requests[e].details : r.date = d /\ r.period \in {p, "all_day"}}

\* the sum of headcount_value over the returned rows of (d, j), in quarters
Headcount(d, j) ==
  LET S == {a \in OutputRows : a.date = d /\ a.job_type_id = j}
  IN SumOver(S, [a \in S |-> a.headcount_value])

HasEntry(d, j) == \E v \in response.violations : v.date = d /\ v.job_type = j

\* C1: a schedule persisted by generate_schedule holds exactly one assignment for
\* every (employee, date of the month), that is |employees| x |days| rows
C1_Completeness ==
  Produced =>
    /\ \A e \in EmployeeIds : \A d \in 1 .. DaysInMonth : Cardinality(CellRows(e, d)) = 1
    /\ Cardinality(OutputRows) = Cardinality(EmployeeIds) * DaysInMonth

C1_Witness ==
  /\ Produced
  /\ \E s \in schedules : s.id < response.schedule_id
  /\ \E a \in OutputRows : is_non_working_day(a.date)
  /\ \E a \in OutputRows : a.work_type = "full"

\* C2: in a generated schedule every working date has, for each one-per-day
\* category somebody is qualified for, exactly one assignment, and it is a full day
C2_OnePerDayStaffing ==
  Produced =>
    \A d \in all_dates : \A j \in JobTypeIds :
      (/\ ~is_non_working_day(d)
       /\ JobTypeName[j] \in {"shokunin", "sub_shokunin"}
       /\ \E e \in EmployeeIds : j \in employee_job_types[e])
      => LET S == {a \in OutputRows : a.date = d /\ a.job_type_id = j}
         IN Cardinality(S) = 1 /\ \A a \in S : a.work_type = "full"

C2_Witness ==
  /\ Produced
  /\ daily_requirements = {}
  /\ \E e \in EmployeeIds : \E d \in working_dates :
       /\ Cardinality(RequestedOff(e, d)) = 1
       /\ 1 \in employee_job_types[e]
       /\ \E a \in OutputRows : a.date = d /\ a.job_type_id = 1 /\ a.employee_id # e

\* C4: in a generated schedule an employee whose request rows of a date cover both
\* am and pm is off on that date, also when a requirement of the date stays unmet
C4_FullDayOff ==
  Produced =>
    \A e \in EmployeeIds : \A d \in all_dates :
      RequestedOff(e, d) = {"am", "pm"}
        => /\ CellRows(e, d) # {}
           /\ \A a \in CellRows(e, d) : a.work_type = "off"

C4_Witness ==
  /\ Produced
  /\ \E e \in EmployeeIds : \E d \in working_dates :
       /\ RequestedOff(e, d) = {"am", "pm"}
       /\ \A r \in shift_requests[e].details : r.period # "all_day"
       /\ \E v \in response.violations : v.date = d /\ v.job_type \in employee_job_types[e]
       /\ \A a \in CellRows(e, d) : a.work_type = "off"

\* C5: in a generated schedule an employee with exactly one half of a date asked
\* off is off, or works the other half with head count 0.5; never a full day
C5_HalfDayOff ==
  Produced =>
    \A e \in EmployeeIds : \A d \in all_dates :
      Cardinality(RequestedOff(e, d)) = 1
        => \A a \in CellRows(e, d) :
             \/ a.work_type = "off"
             \/ /\ a.headcount_value = HC_HALF
                /\ a.work_type = IF RequestedOff(e, d) = {"am"} THEN "afternoon_half"
                                 ELSE "morning_half"

C5_Witness ==
  /\ Produced
  /\ \E e \in EmployeeIds : \E d \in working_dates :
       /\ RequestedOff(e, d) = {"pm"}
       /\ \E a \in CellRows(e, d) : a.work_type = "morning_half"

\* C3: in a schedule returned by the optimizer or by the NL patch engine no
\* assignment has a job type outside the qualifications of its employee
C3_QualificationRespected ==
  Output =>
    \A a \in OutputRows :
      a.job_type_id # NoneId => a.job_type_id \in employee_job_types[a.employee_id]

\* C6: in a schedule returned by the optimizer or by the NL patch engine every
\* assignment of a non-working date is off, without job type, with head count 0
C6_NonWorkingDatesOff ==
  Output =>
    \A a \in OutputRows :
      is_non_working_day(a.date)
        => a.work_type = "off" /\ a.job_type_id = NoneId /\ a.headcount_value = HC_OFF

\* C7: every stored assignment has head count 0 exactly when it is off, 0.5 exactly
\* when it is a half day and 1.0 exactly when it is a full day
C7_HeadcountConsistency ==
  \A a \in shift_assignments :
    /\ a.headcount_value = HC_OFF <=> a.work_type = "off"
    /\ a.headcount_value = HC_HALF <=> a.work_type \in {"morning_half", "afternoon_half"}
    /\ a.headcount_value = HC_FULL <=> a.work_type = "full"

\* C8 as stated: every requirement row of the month, on any date, has a violations
\* entry exactly when the head counts of its (date, category) sum to less than the
\* required count, and no other pair has an entry
C8_ViolationsAllDates ==
  Produced =>
    /\ \A r \in daily_requirements :
         HasEntry(r.date, r.job_type_id)
           <=> Headcount(r.date, r.job_type_id) < r.required_count
    /\ \A v \in response.violations :
         \E r \in daily_requirements : r.date = v.date /\ r.job_type_id = v.job_type

\* C8, amended: every requirement row on a working date has a violations entry
\* exactly when the head counts of its (date, category) sum to less than the
\* required count; no pair on a non-working date or without a row has an entry
C8_ViolationsWorkingDates ==
  Produced =>
    /\ \A r \in daily_requirements :
         ~is_non_working_day(r.date)
           => (HasEntry(r.date, r.job_type_id)
                 <=> Headcount(r.date, r.job_type_id) < r.required_count)
    /\ \A v \in response.violations :
         /\ ~is_non_working_day(v.date)
         /\ \E r \in daily_requirements : r.date = v.date /\ r.job_type_id = v.job_type

C8_Witness ==
  /\ Produced
  /\ \E r \in daily_requirements :
       /\ ~is_non_working_day(r.date)
       /\ Headcount(r.date, r.job_type_id) = HC_HALF
       /\ HasEntry(r.date, r.job_type_id)

\* C9: a call of generate_schedule whose solver status is neither OPTIMAL nor
\* FEASIBLE ends in an error and leaves the Schedule and ShiftAssignment rows as
\* they were
C9_FailureLeavesStore ==
  [][(/\ request_count' # request_count
      /\ response'.op \in {"generate", "nlp_modify"}
      /\ response'.solver_status \in {"INFEASIBLE", "MODEL_INVALID", "UNKNOWN"})
     => (/\ response'.code = 400
         /\ schedules' = schedules
         /\ shift_assignments' = shift_assignments)]_vars

C9_Witness ==
  /\ response.solver_status = "INFEASIBLE"
  /\ response.code = 400
  /\ schedules # {}
  /\ shift_assignments # {}

\* an instance that is feasible without requirements and whose requirement rows
\* ask non-negative counts of categories other than the one-per-day ones
SoftOnlyInstance ==
  /\ \A r \in daily_requirements :
       /\ JobTypeName[r.job_type_id] \notin {"shokunin", "sub_shokunin"}
       /\ r.required_count >= 0
  /\ FeasibleSolutions({}, <<>>) # {}

\* C10: on such an instance the model with the requirements is feasible, the solver
\* never reports it infeasible or invalid, and a generation that gets a solution
\* succeeds, persists the schedule and lists every unmet requirement
C10_ShortageNeverFails ==
  (daily_requirements # {} /\ SoftOnlyInstance) =>
    /\ FeasibleSolutions(daily_reqs, <<>>) # {}
    /\ response.op = "generate" =>
         /\ response.solver_status \notin {"INFEASIBLE", "MODEL_INVALID"}
         /\ response.solver_status \in {"OPTIMAL", "FEASIBLE"} =>
              /\ response.code = 200
              /\ \E s \in schedules : s.id = response.schedule_id
              /\ OutputRows # {}
              /\ \A r \in daily_requirements :
                   (/\ ~is_non_working_day(r.date)
                    /\ Headcount(r.date, r.job_type_id) < r.required_count)
                   => HasEntry(r.date, r.job_type_id)

C10_Witness ==
  /\ daily_requirements # {}
  /\ SoftOnlyInstance
  /\ Produced
  /\ \E r \in daily_requirements :
       /\ Headcount(r.date, r.job_type_id) < r.required_count
       /\ HasEntry(r.date, r.job_type_id)

OnePerDay(j) == JobTypeName[j] \in {"shokunin", "sub_shokunin"}

\* on working date d nobody qualified for the one-per-day category j is free of
\* day-off requests
NobodyAvailable(d, j) ==
  /\ ~is_non_working_day(d)
  /\ OnePerDay(j)
  /\ \E e \in EmployeeIds : j \in employee_job_types[e]
  /\ \A e \in EmployeeIds : j \in employee_job_types[e] => RequestedOff(e, d) # {}

\* employee e is the only one qualified for each of the one-per-day categories
SoleHolderOfBoth(e) ==
  \A j \in JobTypeIds :
    OnePerDay(j) =>
      /\ j \in employee_job_types[e]
      /\ \A f \in EmployeeIds \ {e} : j \notin employee_job_types[f]

Unstaffable ==
  \/ \E d \in all_dates : \E j \in JobTypeIds : NobodyAvailable(d, j)
  \/ (\E d \in all_dates : ~is_non_working_day(d)) /\ \E e \in EmployeeIds : SoleHolderOfBoth(e)

\* C11: when a one-per-day category cannot be staffed on some working date, a
\* generation ends in the error of a solver without solution and stores nothing
C11_UnstaffableFails ==
  (Unstaffable /\ response.op = "generate") =>
    /\ response.code = 400
    /\ response.solver_status \in {"INFEASIBLE", "UNKNOWN", "MODEL_INVALID"}
    /\ schedules = {}
    /\ shift_assignments = {}

C11_Witness ==
  /\ response.op = "generate"
  /\ response.solver_status = "INFEASIBLE"
  /\ response.code = 400
  /\ \E d \in all_dates : \E j \in JobTypeIds :
       /\ NobodyAvailable(d, j)
       /\ \E e \in EmployeeIds :
            j \in employee_job_types[e] /\ Cardinality(RequestedOff(e, d)) = 1
  /\ ~ \E e \in EmployeeIds : SoleHolderOfBoth(e)

\* C12: the Schedule row that an NL patch has just created and committed, on either
\* path, has status preview
C12_PatchCreatesPreview ==
  (response.op = "nlp_modify" /\ response.code = 200) =>
    \A s \in schedules : s.id = response.schedule_id => s.status = "preview"

\* the status changes the life cycle allows
AllowedTransition(from, to) ==
  \/ to = "draft"
  \/ <<from, to>> \in {<<"draft", "preview">>, <<"preview", "confirmed">>,
                       <<"confirmed", "published">>}

\* C13: confirmed_at of a schedule is written only by the step that takes the
\* schedule from preview to confirmed
C13_ConfirmedAtOnlyOnConfirm ==
  [][\A s \in schedules : \A t \in schedules' :
       (s.id = t.id /\ t.confirmed_at # s.confirmed_at)
         => (s.status = "preview" /\ t.status = "confirmed")]_vars

\* C14: the status of a schedule changes only along draft, preview, confirmed,
\* published or back to draft, and a request naming an unknown status is rejected
C14_StatusLifeCycle ==
  [][/\ \A s \in schedules : \A t \in schedules' :
          (s.id = t.id /\ t.status # s.status) => AllowedTransition(s.status, t.status)
     /\ \A t \in schedules' : t.status \in StatusNames]_vars

\* what the rows of schedule sid in table rows say about cell (e, d)
CellOf(rows, sid, e, d) ==
  {[job_type_id |-> a.job_type_id, work_type |-> a.work_type,
    headcount_value |-> a.headcount_value] :
     a \in {b \in rows : b.schedule_id = sid /\ b.employee_id = e /\ b.date = d}}

\* the cells a list of edits pins
PinTargets(parsed) ==
  {c \in EmployeeIds \X all_dates :
     \E i \in 1 .. Len(parsed) :
       /\ parsed[i].type = "pin"
       /\ parsed[i].employee_name = EmployeeName[c[1]]
       /\ parsed[i].date = c[2]}

\* the schedule the patch of the last response started from
PatchedFrom(logs, resp) == (CHOOSE l \in logs : l.id = resp.log_id).schedule_id

\* C15: a pin-only patch adds a schedule without a solver run, and every cell that
\* no pin names keeps job type, work type and head count of the old schedule; a
\* copy followed by the empty pin list keeps every cell
C15_PinOnlyFrame ==
  [][/\ (response'.op = "nlp_modify" /\ response'.path = "pin")
          => /\ response'.solver_status = "NOT_RUN"
             /\ response'.schedule_id \notin {s.id : s \in schedules}
             /\ response'.schedule_id \in {s.id : s \in schedules'}
             /\ \A c \in (EmployeeIds \X all_dates) \ PinTargets(response'.parsed) :
                  /\ CellOf(shift_assignments', response'.schedule_id, c[1], c[2]) # {}
                  /\ CellOf(shift_assignments', response'.schedule_id, c[1], c[2])
                       = CellOf(shift_assignments, PatchedFrom(nlp_logs', response'), c[1], c[2])
     /\ \A s \in schedules :
          LET copy == apply_pins_to_assignments(CloneRows(RowsOf(s.id), NoneId, 1), <<>>)
          IN \A c \in EmployeeIds \X all_dates :
               CellOf(copy, NoneId, c[1], c[2]) = CellOf(shift_assignments, s.id, c[1], c[2])
    ]_vars

C15_Witness ==
  /\ response.op = "nlp_modify"
  /\ response.path = "pin"
  /\ \E c \in PinTargets(response.parsed) :
       CellOf(shift_assignments, response.schedule_id, c[1], c[2])
         # CellOf(shift_assignments, PatchedFrom(nlp_logs, response), c[1], c[2])
  /\ \E a \in RowsOf(PatchedFrom(nlp_logs, response)) : a.headcount_value = HC_HALF

\* the name that the inverse pin of a cell carries
InverseName(cell) ==
  IF cell.work_type = "off" \/ cell.job_type_id = NoneId THEN OffMarker
  ELSE JobTypeName[cell.job_type_id]

\* the last request was a pin-only patch <<P, Q>> of one cell c whose old value is
\* cell, and Q is the inverse pin of that cell
PinThenInverse(c, cell) ==
  /\ response.op = "nlp_modify"
  /\ response.path = "pin"
  /\ Len(response.parsed) = 2
  /\ PinTargets(response.parsed) = {c}
  /\ CellOf(shift_assignments, PatchedFrom(nlp_logs, response), c[1], c[2]) = {cell}
  /\ response.parsed[2].new_job_type = InverseName(cell)

CellValues ==
  [job_type_id : JobTypeIds \cup {NoneId}, work_type : WorkTypes,
   headcount_value : {HC_OFF, HC_HALF, HC_FULL}]

AssignedCount(sid, e, j) ==
  Cardinality({d \in working_dates :
                 \E a \in shift_assignments :
                   a.schedule_id = sid /\ a.employee_id = e /\ a.date = d
                     /\ a.job_type_id = j})

\* the adjust hint c names an employee and a job type that the optimizer loaded
\* (a job type some employee is qualified for) and has an amount
HintResolves(c) ==
  /\ c.type = "adjust"
  /\ \E e \in emp_ids : emp_names[e] = c.employee_name
  /\ \E j \in all_job_type_ids : JobTypeName[j] = c.job_type
  /\ c.has_amount

\* what the hint c asks of the count cnt
HintHonoured(c, cnt) ==
  CASE c.action = "set" -> cnt = c.amount
    [] c.action = "increase" -> cnt >= c.amount
    [] c.action = "decrease" -> cnt <= PyMax(0, c.amount)
    [] OTHER -> TRUE

\* C17: the schedule a re-optimization without pins returns honours every adjust
\* hint that resolves and has an integer amount (0 and negative amounts included)
C17_AdjustHonoured ==
  (response.op = "nlp_modify" /\ response.path = "reopt" /\ response.code = 200)
    => \A i \in 1 .. Len(response.parsed) :
         LET c == response.parsed[i]
         IN HintResolves(c)
              => HintHonoured(c, AssignedCount(response.schedule_id,
                                               emp_name_to_id(c.employee_name),
                                               jt_name_to_id(c.job_type)))

\* the adjust hint c names no employee or no job type of the tables, or has no amount
NoOpHint(c) ==
  /\ c.type = "adjust"
  /\ \/ emp_name_to_id(c.employee_name) = NoneId
     \/ jt_name_to_id(c.job_type) = NoneId
     \/ ~c.has_amount

\* the last request was a successful re-optimization whose hints are all of that kind
PatchedWithNoOpHints ==
  /\ response.op = "nlp_modify"
  /\ response.path = "reopt"
  /\ response.code = 200
  /\ response.parsed # <<>>
  /\ \A i \in 1 .. Len(response.parsed) : NoOpHint(response.parsed[i])

ObjectiveValues(sols) == {Objective(sol, daily_reqs) : sol \in sols}

\* C18: a hint with an unknown employee or job type name, or without amount, leaves
\* the feasible assignments and the optimal objective as they are without the hint,
\* and the solver outcomes (errors included) are the same
C18_UnresolvedHintNoOp ==
  PatchedWithNoOpHints
    => /\ FeasibleSolutions(daily_reqs, response.parsed) = FeasibleSolutions(daily_reqs, <<>>)
       /\ ObjectiveValues(OptimalSolutions(daily_reqs, response.parsed))
            = ObjectiveValues(OptimalSolutions(daily_reqs, <<>>))
       /\ GenerateOutcomes(response.parsed) = GenerateOutcomes(<<>>)

\* a hint "set" without amount was sent and the schedule returned gives the employee
\* the job type on some date, which amount 0 would forbid
C18_Witness ==
  /\ PatchedWithNoOpHints
  /\ ~response.parsed[1].has_amount
  /\ response.parsed[1].action = "set"
  /\ AssignedCount(response.schedule_id, emp_name_to_id(response.parsed[1].employee_name),
                   jt_name_to_id(response.parsed[1].job_type)) > 0

\* the job category schedule sid gives cell (e, d); a cell without row counts as off
CategoryAt(sid, e, d) ==
  LET jobs == {a.job_type_id : a \in {b \in shift_assignments :
                 b.schedule_id = sid /\ b.employee_id = e /\ b.date = d}}
  IN IF jobs = {} THEN NoneId ELSE CHOOSE j \in jobs : TRUE

\* the entries of the returned change list for cell (e, d)
ChangeEntries(e, d) ==
  {i \in 1 .. Len(response.changes) :
     response.changes[i].employee_id = e /\ response.changes[i].date = d}

PatchSucceeded == response.op = "nlp_modify" /\ response.code = 200

C20_EveryLogNamesNewSchedule ==
  response.op = "nlp_modify"
    => \A l \in nlp_logs :
         /\ l.new_schedule_id # NoneId
         /\ \E s \in schedules : s.id = l.new_schedule_id

\* the log row a decision request names, before the request
DecidedLog == CHOOSE l \in nlp_logs : l.id = response'.log_id

\* C21: reject_log on the log of a patch that created schedule S removes S and every
\* assignment of S and leaves the schedule the patch was applied to, with its
\* assignments, as it was; approve_log changes the status of the log and no
\* schedule or assignment row
C21_RejectDeletesOnlyNewSchedule ==
  [][/\ (response'.op = "reject_log" /\ response'.code = 200)
          => LET S == DecidedLog.new_schedule_id
                 old == DecidedLog.schedule_id
             IN /\ ~\E s \in schedules' : s.id = S
                /\ ~\E a \in shift_assignments' : a.schedule_id = S
                /\ {s \in schedules' : s.id = old} = {s \in schedules : s.id = old}
                /\ {a \in shift_assignments' : a.schedule_id = old}
                     = {a \in shift_assignments : a.schedule_id = old}
     /\ (response'.op = "approve_log" /\ response'.code = 200)
          => /\ schedules' = schedules
             /\ shift_assignments' = shift_assignments
             /\ nlp_logs' = (nlp_logs \ {DecidedLog})
                              \cup {[DecidedLog EXCEPT !.status = "approved"]}
    ]_vars

\* a patch log was rejected: the schedule of the patch and its rows are gone, the
\* schedule the patch started from is there with its rows
C21_Witness ==
  /\ response.op = "reject_log"
  /\ response.code = 200
  /\ request_count = 3
  /\ ~\E s \in schedules : s.id = response.schedule_id
  /\ \E l \in nlp_logs :
       /\ l.id = response.log_id
       /\ l.status = "rejected"
       /\ \E s \in schedules : s.id = l.schedule_id
       /\ RowsOf(l.schedule_id) # {}

\* an nlp_modify request that has not answered yet has committed none of its rows
NoVisibleWrites ==
  /\ ~\E l \in nlp_logs : l.id = in_flight.log_id
  /\ ~\E s \in schedules : s.id = in_flight.new_schedule_id
  /\ RowsOf(in_flight.new_schedule_id) = {}

\* for patches with adjusts and pins: no committed state shows the
\* new schedule with a pinned cell still at the solver's value
PinsVisibleWithSchedule ==
  in_flight.phase = "written"
    => RowsOf(in_flight.new_schedule_id)
         = apply_pins_to_assignments(RowsOf(in_flight.new_schedule_id),
                                     SelectSeq2(in_flight.parsed, "pin"))

\* C22: every writing operation becomes visible in one step: while nlp_modify is
\* between two commits a reader sees none of its rows (so never the new schedule
\* with the solver's values in the pinned cells), and after a failed nlp_modify no
\* row it wrote is left
C22_AtomicWrites ==
  /\ in_flight.phase # "idle" => NoVisibleWrites
  /\ PinsVisibleWithSchedule
  /\ (in_flight.phase = "idle" /\ response.op = "nlp_modify" /\ response.code = 400)
       => ~\E l \in nlp_logs : l.new_schedule_id = NoneId

\* C23: every schedule that a request creates gets an id above the ids of all
\* schedules created before it, those that a reject has deleted since included, so
\* that the new_schedule_id of a log never comes to denote another schedule
C23_FreshScheduleIds ==
  [][\A s \in schedules' :
       s.id \notin {t.id : t \in schedules}
         => /\ \A t \in schedules : t.id < s.id
            /\ \A l \in nlp_logs : l.new_schedule_id < s.id
    ]_vars

\* C24: every stored assignment has head count 0 exactly when its work type is off
\* or it has no job category
C24_NoHeadcountWithoutJob ==
  \A a \in shift_assignments :
    a.headcount_value = HC_OFF <=> (a.work_type = "off" \/ a.job_type_id = NoneId)

\* the last request was a pin-only patch of one pin
OnePinPatch ==
  /\ response.op = "nlp_modify"
  /\ response.path = "pin"
  /\ Len(response.parsed) = 1

\* the value the pin asks for the cell it names, none when it asks nothing
PinValue(pin) ==
  IF pin.new_job_type = OffMarker
    THEN {[job_type_id |-> NoneId, work_type |-> "off", headcount_value |-> HC_OFF]}
  ELSE {[job_type_id |-> j, work_type |-> "full", headcount_value |-> HC_FULL] :
          j \in {k \in JobTypeIds : JobTypeName[k] = pin.new_job_type}}

\* C25: one pin changes at most the cell it names: to (no category, off, 0) for the
\* off marker, to (category, full, 1.0) for the name of a category, and not at all
\* for an unknown employee, a cell without assignment or an unknown category; it
\* never writes a half day and the request never fails
C25_OnePin ==
  OnePinPatch
    => LET pin == response.parsed[1]
           old == PatchedFrom(nlp_logs, response)
           new == response.schedule_id
       IN /\ response.code = 200
          /\ Cardinality(RowsOf(new)) = Cardinality(RowsOf(old))
          /\ \A e \in EmployeeIds, d \in 1 .. DaysInMonth + 1 :
               CellOf(shift_assignments, new, e, d)
                 = IF /\ EmployeeName[e] = pin.employee_name
                      /\ d = pin.date
                      /\ CellOf(shift_assignments, old, e, d) # {}
                      /\ PinValue(pin) # {}
                     THEN PinValue(pin)
                   ELSE CellOf(shift_assignments, old, e, d)

\* a pin named a category for a half-day cell, which became a full day
C25_Witness ==
  /\ OnePinPatch
  /\ LET pin == response.parsed[1]
     IN /\ pin.new_job_type = "shokunin"
        /\ \E e \in EmployeeIds :
             /\ EmployeeName[e] = pin.employee_name
             /\ \E c \in CellOf(shift_assignments, PatchedFrom(nlp_logs, response),
                                e, pin.date) : c.work_type = "afternoon_half"
             /\ CellOf(shift_assignments, response.schedule_id, e, pin.date)
                  = {[job_type_id |-> 1, work_type |-> "full", headcount_value |-> HC_FULL]}

\* one employee with target "max", no day-off request, qualified for categories
\* that are not one-per-day only, and no requirement row
SoloMaxInstance ==
  /\ Cardinality(employees) = 1
  /\ \A e \in employees :
       /\ emp_requested_work(e) = "max"
       /\ shift_requests[e].details = {}
       /\ employee_job_types[e] # {}
       /\ employee_job_types[e] \cap hard_one_jt_ids = {}
  /\ daily_requirements = {}

\* C26: in such an instance the optimal schedule has the employee on a full day on
\* every working date
C26_SoloMaxWorksEveryDay ==
  (Produced /\ response.solver_status = "OPTIMAL" /\ SoloMaxInstance)
    => \A e \in employees, d \in working_dates :
         \A a \in CellRows(e, d) : a.work_type = "full" /\ a.job_type_id # NoneId

\* an optimal schedule of such an instance, next to a schedule of the same instance
\* that the solver returned as merely feasible and that leaves a working date off
C26_Witness ==
  /\ Produced
  /\ response.solver_status = "OPTIMAL"
  /\ SoloMaxInstance
  /\ \E a \in OutputRows : a.date \in working_dates /\ a.work_type = "full"
  /\ \E a \in shift_assignments :
       a.schedule_id # response.schedule_id /\ a.date \in working_dates
         /\ a.work_type = "off"

\* employee e is qualified for j, not on a full day off on d, and off in the
\* returned schedule on d
LeftIdle(e, d, j) ==
  /\ j \in employee_job_types[e]
  /\ d \notin emp_full_off(e)
  /\ \E a \in CellRows(e, d) : a.job_type_id = NoneId

HalfStep(count) == count % 2 = 0

C28_PatchViolationsSound ==
  (PatchSucceeded /\ response.path \in {"pin", "reopt_pin"})
    => \A r \in daily_requirements :
         ~is_non_working_day(r.date)
           => (HasEntry(r.date, r.job_type_id)
                 <=> Headcount(r.date, r.job_type_id) < r.required_count)

\* C29: generate_schedule and nlp_modify only add rows: every schedule row (status,
\* confirmed_at) and every assignment row that was there before the call is there
\* unchanged after it, whether the call succeeds or fails
C29_OnlyAdds ==
  [][response'.op \in {"generate", "nlp_modify"}
       => /\ schedules \subseteq schedules'
          /\ shift_assignments \subseteq shift_assignments'
    ]_vars

\* a confirmed schedule was patched by a pin: it is still confirmed, with its
\* time stamp, and the cell the pin names differs between the two schedules
C29_Witness ==
  /\ PatchSucceeded
  /\ response.changes # <<>>
  /\ \E s \in schedules :
       /\ s.id = PatchedFrom(nlp_logs, response)
       /\ s.status = "confirmed"
       /\ s.confirmed_at > 0
       /\ RowsOf(s.id) # {}

\* C30: once a log has left the status pending, a later approve_log or reject_log
\* on it changes neither its status nor any schedule; the schedule of an approved
\* patch is never deleted by a later reject_log
C30_DecisionIsFinal ==
  [][(/\ response'.op \in {"approve_log", "reject_log"}
      /\ \E l \in nlp_logs : l.id = response'.log_id /\ l.status # "pending")
       => /\ schedules' = schedules
          /\ \A l \in nlp_logs' : l.id = response'.log_id => l.status = DecidedLog.status
    ]_vars

====
